---------------------------- MODULE Spec2Model ----------------------------
(***************************************************************************)
(* wagtail-linkchecker: the scan / link registry / check_link task engine. *)
(*                                                                         *)
(* One Scan of one site.  The store holds the Scan row, its ScanLink rows  *)
(* (pk = position in `links`) and the Page table.  Threads are the         *)
(* initiating thread ("main": Scan.scan_all_pages, and in run_sync mode    *)
(* every check inline) and a pool of Celery workers executing check_link   *)
(* tasks taken from the queue.  Every thread works on in-memory copies of  *)
(* the rows it loaded (Django model instances) and writes whole rows back  *)
(* with save().                                                            *)
(*                                                                         *)
(* Outside the model: the progress prints (verbosity is at most 1), the    *)
(* creation of the site preferences row (it exists), the view that deletes *)
(* a scan.  The stop view is one transaction.  In Spec and SpecClassify a  *)
(* URL gives the same answer every time it is requested; in SpecRedeliver  *)
(* the answer may change between two requests.                             *)
(***************************************************************************)
EXTENDS Integers, Sequences, FiniteSets, TLC

VARIABLES
    scan,       \* the Scan row: scan_started, scan_finished, run_sync
    links,      \* the ScanLink table of the scan: Seq of rows, pk = index
    pages,      \* the Page table: the pages that exist
    queue,      \* Celery queue: check_link tasks [pk, n] waiting for a worker
    stack,      \* call stack of the initiating thread (innermost frame last)
    running,    \* the check_link tasks the workers are executing: frames
    failed,     \* task / command failures: [pk, error] of every check_link
                \* call an unhandled exception propagated through
    messages,   \* admin messages emitted by the views
    web,        \* what the HTTP client answers per URL, fixed once asked
    clock,      \* timezone.now()
    redelivered, \* how many times the queue delivered a task again
    dispatched  \* how many times ScanLink.check_link was called, per pk

vars == <<scan, links, pages, queue, stack, running, failed, messages, web,
          clock, redelivered, dispatched>>

---------------------------------------------------------------------------
(* Bounds of the model *)

MaxWorkers == 2
MaxRedeliver == 1
MaxDeletes == 1

---------------------------------------------------------------------------
(* Optional values: None is <<>>, a value x is <<x>> *)

None == <<>>
Some(x) == <<x>>

---------------------------------------------------------------------------
(* URLs and references.  A reference is kept in the split form urlparse    *)
(* gives: scheme, netloc, path, fragment.                                  *)

Ref(s, n, p, f) == [scheme |-> s, netloc |-> n, path |-> p, frag |-> f]

\* `not url`
IsEmptyRef(u) == u.scheme = "" /\ u.netloc = "" /\ u.path = "" /\ u.frag = ""

\* url.startswith('#')
StartsWithHash(u) == u.scheme = "" /\ u.netloc = "" /\ u.path = "" /\ u.frag # ""

\* a path beginning with "/"
IsAbsPath(p) == p \in {"/", "/a", "/b", "/x", "/long"}

\* urllib.parse.urljoin(base, url) for the references of the modelled site:
\* a reference with its own scheme passes through, a scheme-relative one
\* takes the base's scheme, a path is joined against the base's directory
\* (every base path of the site has one segment, so the directory is "/").
urljoin(base, url) ==
    IF IsEmptyRef(url) THEN base
    ELSE IF url.scheme # "" /\ url.scheme # base.scheme THEN url
    ELSE IF url.netloc # "" THEN Ref(base.scheme, url.netloc, url.path, url.frag)
    ELSE IF url.path = "" THEN Ref(base.scheme, base.netloc, base.path, url.frag)
    ELSE IF IsAbsPath(url.path)
         THEN Ref(base.scheme, base.netloc, url.path, url.frag)
         ELSE Ref(base.scheme, base.netloc, "/" \o url.path, url.frag)

\* len(link_url); "/long" stands for a path of 600 characters
PathLen(p) == IF p = "/long" THEN 600 ELSE Len(p)
UrlLen(u) ==
    (IF u.scheme = "" THEN 0 ELSE Len(u.scheme) + 1)
    + (IF u.netloc = "" THEN 0 ELSE Len(u.netloc) + 2)
    + PathLen(u.path)
    + (IF u.frag = "" THEN 0 ELSE Len(u.frag) + 1)

\* ScanLink.url = URLField(max_length=500)
MaxUrlLength == 500

---------------------------------------------------------------------------
(* The site: two live public pages, and what their HTML holds.             *)

Pages == {"p1", "p2"}
NoPage == "None"

full_url(p) ==
    IF p = "p1" THEN Ref("https", "site.example", "/a", "")
    ELSE Ref("https", "site.example", "/b", "")

slug(p) == IF p = "p1" THEN "a" ELSE "b"

UrlX == Ref("https", "site.example", "/x", "")
UrlExt == Ref("http", "ext.example", "/", "")

\* anchors' href then images' src of the document served at a URL
Content(u) ==
    IF u = full_url("p1")
    THEN << Ref("", "", "/x", ""),              \* <a href="/x">
            Ref("", "", "", "top"),             \* <a href="#top">
            Ref("", "", "/b", ""),              \* <a href="/b">: page p2
            Ref("", "", "/x", "") >>            \* <img src="/x"> again
    ELSE IF u = full_url("p2")
    THEN << Ref("", "", "/x", ""),              \* <a href="/x">, as on p1
            Ref("mailto", "", "a@b.com", ""),   \* <a href="mailto:a@b.com">
            Ref("", "", "/long", ""),           \* <a href="/loooo...ong">
            Ref("http", "ext.example", "/", ""),
            Ref("", "", "", "") >>              \* <img> without src
    ELSE << >>

---------------------------------------------------------------------------
(* What requests.get gives: a response with a status, or an exception.     *)

Response(s) == [kind |-> "response", status |-> s, msg |-> ""]
Raised(k, m) == [kind |-> k, status |-> 0, msg |-> m]

\* the answers a URL of the site can give
Responses(u) ==
    IF u.netloc = "site.example"
    THEN { Response(200), Response(404) }
    ELSE { Raised("ConnectionError", "refused"),
           Raised("InvalidSchema", "ftp") }

\* every kind of outcome of requests.get: statuses at and around the limits
\* of range(100, 400), range(400, 500) and range(500, 600), standard or not,
\* and exceptions of each except clause
AnyResponses ==
    { Response(c) : c \in {99, 100, 200, 301, 399, 400, 404, 499, 500, 599, 600} }
    \cup { Raised("InvalidSchema", "ftp"), Raised("MissingSchema", "no scheme"),
           Raised("ConnectionError", "refused"), Raised("ReadTimeout", "60s") }

---------------------------------------------------------------------------
(* ScanLink rows *)

\* self.links.create(url=link_url, page=page, follow=follow), through
\* ScanLink.save, which fills domainname from the url's netloc
NewLink(url, page, follow) ==
    [ url          |-> url,
      domainname   |-> url.netloc,
      follow       |-> follow,
      crawled      |-> FALSE,
      invalid      |-> FALSE,
      broken       |-> FALSE,
      status_code  |-> None,
      error_text   |-> None,
      page         |-> page,
      page_deleted |-> FALSE,
      page_slug    |-> None ]

PKs == 1..Len(links)

\* self.links.filter(url=link_url).exists()
UrlExists(u) == \E pk \in PKs : links[pk].url = u

\* (mutant) the pending query overlooks the links that are not followed
non_scanned_links_followed == { pk \in PKs : ~links[pk].crawled /\ links[pk].follow }

\* (mutant) the pending query overlooks the links to other sites
non_scanned_links_on_site ==
    { pk \in PKs : ~links[pk].crawled /\ links[pk].url.netloc = "site.example" }

\* ScanLinkQuerySet.non_scanned_links
non_scanned_links == { pk \in PKs : ~links[pk].crawled }

\* ScanLinkQuerySet.invalid_links, broken_links, working_links
invalid_links == { pk \in PKs : links[pk].invalid }
broken_links == { pk \in PKs : links[pk].broken }
working_links ==
    { pk \in PKs : ~links[pk].invalid /\ ~links[pk].broken /\ links[pk].crawled }

---------------------------------------------------------------------------
(* Outcome classification (tasks.py) *)

\* http.HTTPStatus(code).phrase for the standard codes the model uses;
\* None where HTTPStatus raises ValueError
HTTPStatusPhrase(code) ==
    IF code = 100 THEN Some("Continue")
    ELSE IF code = 200 THEN Some("OK")
    ELSE IF code = 301 THEN Some("Moved Permanently")
    ELSE IF code = 400 THEN Some("Bad Request")
    ELSE IF code = 404 THEN Some("Not Found")
    ELSE IF code = 500 THEN Some("Internal Server Error")
    ELSE IF code = 503 THEN Some("Service Unavailable")
    ELSE None

link_is_broken(link) ==
    LET code == link.status_code[1]
        text == IF HTTPStatusPhrase(code) # None THEN HTTPStatusPhrase(code)[1]
                ELSE IF code \in 400..499 THEN "Client error"
                ELSE IF code \in 500..599 THEN "Server Error"
                ELSE "Error: Unknown HTTP Status Code"
    IN [link EXCEPT !.broken = TRUE, !.error_text = Some(text)]

\* (mutant) every status below 400 is taken as success
IsOkBelow400(resp) == resp.kind = "response" /\ resp.status < 400

\* status in range(100, 400)
IsOk(resp) == resp.kind = "response" /\ resp.status \in 100..399

\* the try / except / else of check_link: the in-memory link after the fetch
\* (before link_is_ok's extraction, which changes other rows, not this one)
Classify(link, resp) ==
    IF resp.kind \in {"InvalidSchema", "MissingSchema"}
    THEN [link EXCEPT !.invalid = TRUE, !.error_text = Some("Link was invalid")]
    ELSE IF resp.kind = "ConnectionError"
    THEN [link EXCEPT !.broken = TRUE,
            !.error_text = Some("There was an error connecting to this site")]
    ELSE IF resp.kind # "response"
    THEN [link EXCEPT !.broken = TRUE,
            !.error_text = Some(resp.kind \o ": " \o resp.msg)]
    ELSE IF IsOk(resp)
    THEN [link EXCEPT !.status_code = Some(resp.status)]
    ELSE link_is_broken([link EXCEPT !.status_code = Some(resp.status)])

---------------------------------------------------------------------------
(* Threads and call stacks *)

\* A frame of scan_pages or of check_link.  n: which delivery of the task
\* (0: the dispatch by the code); link: the in-memory ScanLink; page: the
\* page argument of add_links; urls: references add_links still has to
\* register; url: the resolved url add_link is about to create; new_links:
\* pks still to be dispatched by the loop over the new links.
Frame(fn, pc, pk, n, link, page, urls, url, new_links) ==
    [ fn |-> fn, pc |-> pc, pk |-> pk, n |-> n, link |-> link, page |-> page,
      urls |-> urls, url |-> url, new_links |-> new_links ]

NoUrl == Ref("", "", "", "")
NoLink == NewLink(NoUrl, NoPage, FALSE)

\* The initiating thread, and one thread per task in execution (a worker
\* is named by the frame of the task it runs: workers hold no other state)
Main == Frame("main", "", 0, 0, NoLink, NoPage, << >>, NoUrl, << >>)
Threads == {Main} \cup running

StackOf(t) == IF t = Main THEN stack ELSE << t >>
Top(t) == StackOf(t)[Len(StackOf(t))]
Below(t) == SubSeq(StackOf(t), 1, Len(StackOf(t)) - 1)
At(t, fn, pc) == StackOf(t) # << >> /\ Top(t).fn = fn /\ Top(t).pc = pc

\* thread t goes on with call stack stk (a worker's task is over when stk
\* is empty; a worker's stack has one frame, tasks run inline only on Main)
Continue(t, stk) ==
    IF t = Main
    THEN stack' = stk /\ running' = running
    ELSE /\ stack' = stack
         /\ running' = (running \ {t}) \cup
                          (IF stk = << >> THEN {} ELSE {stk[1]})

\* an unhandled exception unwinds every frame of the thread: each
\* check_link call on the stack ends with the error
Unwound(t, err) ==
    { [pk |-> StackOf(t)[i].pk, error |-> err] :
        i \in { j \in 1..Len(StackOf(t)) : StackOf(t)[j].fn = "check_link" } }

Raise(t, err) ==
    /\ failed' = failed \cup Unwound(t, err)
    /\ Continue(t, << >>)

\* (mutant) check_link without its `if scan.scan_finished: return`
CheckLinkStartUnchecked(stk, pk, n) ==
    Append(stk, Frame("check_link", "fetch", pk, n, links[pk], NoPage,
                      << >>, NoUrl, << >>))

\* lines 46-52 of tasks.py: load the link and its scan; a finished scan
\* makes the call return at once, otherwise the call goes on to the fetch
CheckLinkStart(stk, pk, n) ==
    IF scan.scan_finished # None THEN stk
    ELSE Append(stk, Frame("check_link", "fetch", pk, n, links[pk], NoPage,
                           << >>, NoUrl, << >>))

---------------------------------------------------------------------------
(* Scan.add_link, as the steps of one thread *)

\* lines 94-95: `not url or url.startswith('#')`
RejectedEarly(url) == IsEmptyRef(url) \/ StartsWithHash(url)

\* (mutant) add_link without its check of the resolved scheme
AnySchemeAccepted(link_url) == FALSE

\* lines 98-99: the resolved scheme is neither http nor https
RejectedScheme(link_url) == link_url.scheme \notin {"http", "https"}

\* add_link returns before it asks the store anything (lines 94-100)
RejectedUnseen(url, page) ==
    \/ RejectedEarly(url)
    \/ page # NoPage /\ RejectedScheme(urljoin(full_url(page), url))

\* add_links' loop skips the references add_link rejects without asking
\* the store, up to the first reference it has to look up
RECURSIVE SkipRejected(_, _)
SkipRejected(urls, page) ==
    IF urls = << >> THEN urls
    ELSE IF RejectedUnseen(Head(urls), page) THEN SkipRejected(Tail(urls), page)
    ELSE urls

\* (mutant) ScanLink without its unique_together
UniqueNotEnforced(u) == FALSE

\* ScanLink.Meta.unique_together = [('url', 'scan')]: the store refuses a
\* second row with the url
UniqueViolation(u) == UrlExists(u)

\* a page reference the store no longer has a row for
Dangling(page) == page # NoPage /\ page \notin pages

\* the frame when add_links goes on with the references `urls`
AddLinks(f, urls, page) ==
    LET rest == SkipRejected(urls, page) IN
    [f EXCEPT !.urls = rest, !.url = NoUrl, !.page = page,
              !.pc = IF rest # << >> THEN "add_link"
                     ELSE IF f.new_links # << >> THEN "dispatch" ELSE "save"]

\* the frame after add_link returned for the first of f.urls
AfterAddLink(f, created) ==
    AddLinks([f EXCEPT !.new_links = IF created = None THEN f.new_links
                                     ELSE Append(f.new_links, created[1])],
             Tail(f.urls), f.page)

\* Scan.scan_pages, first loop: add_link(page.full_url, page, follow=True)
\* for every page in order; gives the rows and the pks of the new links
RECURSIVE SeedLinks(_, _, _)
SeedLinks(ps, rows, new) ==
    IF ps = << >> THEN [rows |-> rows, new |-> new]
    ELSE LET page == Head(ps)
             url == full_url(page)
             link_url == urljoin(full_url(page), url)
         IN IF \/ RejectedEarly(url)
               \/ RejectedScheme(link_url)
               \/ \E i \in 1..Len(rows) : rows[i].url = link_url
               \/ UrlLen(link_url) > MaxUrlLength
            THEN SeedLinks(Tail(ps), rows, new)
            ELSE SeedLinks(Tail(ps),
                           Append(rows, NewLink(link_url, page, TRUE)),
                           Append(new, Len(rows) + 1))

\* order_by('-latest_revision_created_at'): p1 was revised last
RECURSIVE QueryOrder(_)
QueryOrder(S) ==
    IF S = {} THEN << >>
    ELSE LET p == IF "p1" \in S THEN "p1" ELSE CHOOSE q \in S : TRUE
         IN << p >> \o QueryOrder(S \ {p})

---------------------------------------------------------------------------
(* Initial state: the Scan row was created, scan_all_pages is about to run *)

Init ==
    /\ scan \in { [scan_started |-> 0, scan_finished |-> None, run_sync |-> b] :
                    b \in BOOLEAN }
    /\ links = << >>
    /\ pages = Pages
    /\ queue = {}
    /\ stack = << Frame("scan_pages", "seed", 0, 0, NoLink, NoPage,
                        << >>, NoUrl, << >>) >>
    /\ running = {}
    /\ failed = {}
    /\ messages = {}
    /\ web = << >>
    /\ clock = 1
    /\ redelivered = 0
    /\ dispatched = << >>

---------------------------------------------------------------------------
(* Actions *)

\* (mutant) scan_pages marks the scan finished when it registered no seed
ScanPagesSeedFinishesEmpty ==
    /\ At(Main, "scan_pages", "seed")
    /\ \E live \in SUBSET pages :
         LET r == SeedLinks(QueryOrder(live), links, << >>) IN
         /\ links' = r.rows
         /\ stack' = IF r.new = << >> THEN << >>
                     ELSE << [Top(Main) EXCEPT !.pc = "dispatch",
                                               !.new_links = r.new] >>
         /\ scan' = IF r.new = << >>
                    THEN [scan EXCEPT !.scan_finished = Some(clock)]
                    ELSE scan
    /\ clock' = clock + 1
    /\ UNCHANGED <<dispatched, pages, queue, running, failed, messages, web,
                   redelivered>>

\* Scan.scan_all_pages -> scan_pages: the live public pages, registered as
\* follow=True seeds
ScanPagesSeed ==
    /\ At(Main, "scan_pages", "seed")
    /\ \E live \in SUBSET pages :
         LET r == SeedLinks(QueryOrder(live), links, << >>) IN
         /\ links' = r.rows
         /\ stack' = IF r.new = << >> THEN << >>
                     ELSE << [Top(Main) EXCEPT !.pc = "dispatch",
                                               !.new_links = r.new] >>
    /\ UNCHANGED <<dispatched, scan, pages, queue, running, failed, messages, web, clock,
                   redelivered>>

\* the set of the elements of a sequence
Range(s) == { s[i] : i \in 1..Len(s) }

\* the calls of ScanLink.check_link so far, after one more for each pk of S
Called(d, S) ==
    [pk \in DOMAIN d \cup S |->
        (IF pk \in DOMAIN d THEN d[pk] ELSE 0) + (IF pk \in S THEN 1 ELSE 0)]

\* (mutant) ScanLink.check_link hands every check to the queue, whatever
\* scan.run_sync says
DispatchQueued(t) ==
    /\ StackOf(t) # << >>
    /\ Top(t).pc = "dispatch"
    /\ LET f == Top(t)
           f2 == [f EXCEPT !.new_links = << >>, !.pc = "save"]
           base == IF f.fn = "scan_pages" THEN Below(t) ELSE Append(Below(t), f2)
       IN /\ Continue(t, base)
          /\ queue' = queue \cup
                    { [pk |-> k, n |-> 0] : k \in Range(f.new_links) }
          /\ dispatched' = Called(dispatched, Range(f.new_links))
    /\ UNCHANGED <<scan, links, pages, failed, messages, web, clock,
                   redelivered>>

\* `for link in links: link.check_link()` of scan_pages and
\* `for new_link in new_links: new_link.check_link()` of link_is_ok.
\* ScanLink.check_link runs the check inline when scan.run_sync (one link
\* per step), and hands it to the queue otherwise (the loop only writes to
\* the queue: it is one step).
Dispatch(t) ==
    /\ StackOf(t) # << >>
    /\ Top(t).pc = "dispatch"
    /\ LET f == Top(t)
           pk == Head(f.new_links)
           rest == IF scan.run_sync THEN Tail(f.new_links) ELSE << >>
           f2 == [f EXCEPT !.new_links = rest,
                           !.pc = IF rest = << >> THEN "save" ELSE "dispatch"]
           base == IF f.fn = "scan_pages" /\ rest = << >> THEN Below(t)
                   ELSE Append(Below(t), f2)
       IN IF scan.run_sync
          THEN /\ Continue(t, CheckLinkStart(base, pk, 0))
               /\ queue' = queue
               /\ dispatched' = Called(dispatched, {pk})
          ELSE /\ Continue(t, base)
               /\ queue' = queue \cup
                    { [pk |-> k, n |-> 0] : k \in Range(f.new_links) }
               /\ dispatched' = Called(dispatched, Range(f.new_links))
    /\ UNCHANGED <<scan, links, pages, failed, messages, web, clock,
                   redelivered>>

\* a worker takes a task from the queue and enters check_link
TaskStart(task) ==
    /\ task \in queue
    /\ Cardinality(running) < MaxWorkers
    /\ queue' = queue \ {task}
    /\ running' = running \cup Range(CheckLinkStart(<< >>, task.pk, task.n))
    /\ UNCHANGED <<dispatched, scan, links, pages, stack, failed, messages, web, clock,
                   redelivered>>

\* (mutant) link_is_ok without its `if link.follow`
ExtractsWhenOk(link, resp) == IsOk(resp)

\* line 81 of tasks.py and line 15 (link_is_ok): the references of the
\* document are extracted on success, for a link to follow
ShouldExtract(link, resp) == IsOk(resp) /\ link.follow

\* requests.get answers resp, and the classification of this outcome; on
\* success of a follow link, link_is_ok starts: link.page is loaded and the
\* document's references are handed to add_links
FetchAnswer(t, resp) ==
    /\ At(t, "check_link", "fetch")
    /\ LET f == Top(t) IN
         /\ f.link.url \in DOMAIN web => resp = web[f.link.url]
         /\ web' = IF f.link.url \in DOMAIN web THEN web
                   ELSE web @@ (f.link.url :> resp)
         /\ LET link == Classify(f.link, resp) IN
            IF ShouldExtract(f.link, resp) /\ Dangling(f.link.page)
            THEN \* Page.DoesNotExist from the lazy load of link.page
                 Raise(t, "DoesNotExist")
            ELSE /\ failed' = failed
                 /\ Continue(t, Append(Below(t),
                      IF ShouldExtract(f.link, resp)
                      THEN AddLinks([f EXCEPT !.link = link],
                                    Content(f.link.url), f.link.page)
                      ELSE [f EXCEPT !.link = link, !.pc = "save"]))
    /\ UNCHANGED <<dispatched, scan, links, pages, queue, messages, clock,
                   redelivered>>

\* lines 56-84 of tasks.py, with the answers of the modelled site
Fetch(t) ==
    /\ At(t, "check_link", "fetch")
    /\ \E resp \in Responses(Top(t).link.url) : FetchAnswer(t, resp)

\* (mutant) add_link returns the link it found for the url
ExistingLinkReturned(link_url) ==
    Some(CHOOSE pk \in PKs : links[pk].url = link_url)

\* line 102: `return` for a url that has a link already
AlreadyExists(link_url) == None

\* add_link up to and including the existence check (lines 94-102)
AddLinkCheck(t) ==
    /\ At(t, "check_link", "add_link")
    /\ LET f == Top(t)
           url == Head(f.urls)
       IN IF f.page = NoPage
          THEN \* line 96: `self.scan.root_url`, a Scan has no attribute scan
               Raise(t, "AttributeError")
          ELSE LET link_url == urljoin(full_url(f.page), url) IN
               /\ failed' = failed
               /\ Continue(t, Append(Below(t),
                    IF UrlExists(link_url)
                    THEN AfterAddLink(f, AlreadyExists(link_url))
                    ELSE [f EXCEPT !.pc = "create", !.url = link_url]))
    /\ UNCHANGED <<dispatched, scan, links, pages, queue, messages, web, clock,
                   redelivered>>

\* the error the store raises for a create, "" when it stores the row:
\* DataError for a url beyond max_length, IntegrityError for the unique
\* constraint or for a page the store has no row for (on a store that
\* enforces the foreign key)
CreateError(f, fk_enforced) ==
    IF UrlLen(f.url) > MaxUrlLength THEN "DataError"
    ELSE IF UniqueViolation(f.url) THEN "IntegrityError: unique"
    ELSE IF Dangling(f.page) /\ fk_enforced THEN "IntegrityError: foreign key"
    ELSE ""

\* (mutant) add_link without its try / except
NothingCaught(error) == FALSE

\* line 105: `except DataError`
Caught(error) == error = "DataError"

\* add_link's create (lines 103-107).  The store is one that enforces
\* max_length, as the handler of DataError presumes; whether it enforces
\* the reference to the page depends on the store, and both are taken.
AddLinkCreate(t) ==
    /\ At(t, "check_link", "create")
    /\ LET f == Top(t) IN
       \E fk_enforced \in BOOLEAN :
         LET error == CreateError(f, fk_enforced) IN
         IF error = ""
         THEN /\ links' = Append(links, NewLink(f.url, f.page, FALSE))
              /\ Continue(t, Append(Below(t),
                              AfterAddLink(f, Some(Len(links) + 1))))
              /\ failed' = failed
         ELSE IF Caught(error)
         THEN \* the reference is dropped
              /\ Continue(t, Append(Below(t), AfterAddLink(f, None)))
              /\ UNCHANGED <<links, failed>>
         ELSE /\ Raise(t, error)
              /\ links' = links
    /\ UNCHANGED <<dispatched, scan, pages, queue, messages, web, clock,
                   redelivered>>

\* the row link.save() writes after `link.crawled = True`: every field of
\* the in-memory link
SavedRow(link) == [link EXCEPT !.crawled = TRUE]

\* lines 86-87 of tasks.py
Save(t) ==
    /\ At(t, "check_link", "save")
    /\ LET f == Top(t) IN
       \E fk_enforced \in BOOLEAN :
         IF Dangling(f.link.page) /\ fk_enforced
         THEN /\ Raise(t, "IntegrityError: foreign key")
              /\ links' = links
         ELSE /\ links' = [links EXCEPT ![f.pk] = SavedRow(f.link)]
              /\ Continue(t, Append(Below(t), [f EXCEPT !.pc = "pending"]))
              /\ failed' = failed
    /\ UNCHANGED <<dispatched, scan, pages, queue, messages, web, clock,
                   redelivered>>

\* line 89: `if not scan.links.non_scanned_links()`
PendingQuery(t) ==
    /\ At(t, "check_link", "pending")
    /\ Continue(t, IF non_scanned_links = {}
                   THEN Append(Below(t), [Top(t) EXCEPT !.pc = "finish"])
                   ELSE Below(t))
    /\ UNCHANGED <<dispatched, scan, links, pages, queue, failed, messages, web, clock,
                   redelivered>>

\* the Scan row check_link writes at lines 90-91
FinishedScan(s, now) == [s EXCEPT !.scan_finished = Some(now)]

Finish(t) ==
    /\ At(t, "check_link", "finish")
    /\ scan' = FinishedScan(scan, clock)
    /\ clock' = clock + 1
    /\ Continue(t, Below(t))
    /\ UNCHANGED <<dispatched, links, pages, queue, failed, messages, web,
                   redelivered>>

\* views.stop, POST
Stop ==
    /\ scan.scan_finished = None
    /\ scan' = [scan EXCEPT !.scan_finished = Some(clock)]
    /\ clock' = clock + 1
    /\ messages' = messages \cup {"The scan was stopped."}
    /\ UNCHANGED <<dispatched, links, pages, queue, stack, running, failed, web,
                   redelivered>>

\* the rows after delete_tag(instance=p) ran
delete_tag(rows, p) ==
    [pk \in DOMAIN rows |->
        IF rows[pk].page = p
        THEN [rows[pk] EXCEPT !.page_deleted = TRUE,
                              !.page_slug = Some(slug(p))]
        ELSE rows[pk]]

\* ScanLink.page: on_delete=SET_NULL
set_null(rows, p) ==
    [pk \in DOMAIN rows |->
        IF rows[pk].page = p THEN [rows[pk] EXCEPT !.page = NoPage]
        ELSE rows[pk]]

\* the content store deletes a page: pre_delete runs delete_tag, then the
\* references are nulled and the page row goes, in one transaction
DeletePage(p) ==
    /\ p \in pages
    /\ Cardinality(Pages \ pages) < MaxDeletes
    /\ links' = set_null(delete_tag(links, p), p)
    /\ pages' = pages \ {p}
    /\ UNCHANGED <<dispatched, scan, queue, stack, running, failed, messages, web, clock,
                   redelivered>>

\* at-least-once delivery: the queue hands out again a task whose first
\* delivery a worker is still executing (it is not acknowledged yet)
Redeliver(t) ==
    /\ t \in running
    /\ redelivered < MaxRedeliver
    /\ queue' = queue \cup {[pk |-> t.pk, n |-> redelivered + 1]}
    /\ redelivered' = redelivered + 1
    /\ UNCHANGED <<dispatched, scan, links, pages, stack, running, failed, messages, web,
                   clock>>

\* the web is not the engine's: what a URL answers may change between two
\* requests (the answer given is forgotten, the next request draws again)
AnswerChanges(u) ==
    /\ u \in DOMAIN web
    /\ web' = [v \in DOMAIN web \ {u} |-> web[v]]
    /\ UNCHANGED <<dispatched, scan, links, pages, queue, stack, running, failed, messages,
                   clock, redelivered>>

AnyDispatch == \E t \in Threads : Dispatch(t)
AnyTaskStart == \E task \in queue : TaskStart(task)
AnyFetch == \E t \in Threads : Fetch(t)
AnyAddLinkCheck == \E t \in Threads : AddLinkCheck(t)
AnyAddLinkCreate == \E t \in Threads : AddLinkCreate(t)
AnySave == \E t \in Threads : Save(t)
AnyPendingQuery == \E t \in Threads : PendingQuery(t)
AnyFinish == \E t \in Threads : Finish(t)
AnyDeletePage == \E p \in Pages : DeletePage(p)
AnyRedeliver == \E t \in running : Redeliver(t)
AnyAnswerChanges == \E u \in DOMAIN web : AnswerChanges(u)

\* the steps of the engine
Step ==
    \/ ScanPagesSeed
    \/ AnyDispatch
    \/ AnyTaskStart
    \/ AnyFetch
    \/ AnyAddLinkCheck
    \/ AnyAddLinkCreate
    \/ AnySave
    \/ AnyPendingQuery
    \/ AnyFinish

\* The engine with its operator (stop) and the content store (a page is
\* deleted); the queue delivers every task once
Next ==
    \/ Step
    \/ Stop
    \/ AnyDeletePage

Spec == Init /\ [][Next]_vars

\* The engine alone with a queue that may deliver a task again, and a web
\* whose answers may change
NextRedeliver ==
    \/ Step
    \/ AnyRedeliver
    \/ AnyAnswerChanges

SpecRedeliver == Init /\ [][NextRedeliver]_vars

\* A synchronous scan (the linkcheck command) of a site whose only page is
\* p1, over a web that can answer anything
InitClassify ==
    /\ scan = [scan_started |-> 0, scan_finished |-> None, run_sync |-> TRUE]
    /\ links = << >>
    /\ pages = {"p1"}
    /\ queue = {}
    /\ stack = << Frame("scan_pages", "seed", 0, 0, NoLink, NoPage,
                        << >>, NoUrl, << >>) >>
    /\ running = {}
    /\ failed = {}
    /\ messages = {}
    /\ web = << >>
    /\ clock = 1
    /\ redelivered = 0
    /\ dispatched = << >>

FetchAnyAnswer ==
    \E t \in Threads : \E resp \in AnyResponses : FetchAnswer(t, resp)

NextClassify ==
    \/ ScanPagesSeed
    \/ AnyDispatch
    \/ FetchAnyAnswer
    \/ AnyAddLinkCheck
    \/ AnyAddLinkCreate
    \/ AnySave
    \/ AnyPendingQuery
    \/ AnyFinish

SpecClassify == InitClassify /\ [][NextClassify]_vars

---------------------------------------------------------------------------
(* Vocabulary of the properties *)

Stopped == "The scan was stopped." \in messages
Finished == scan.scan_finished # None

\* nothing runs and nothing is queued: no step of the engine is left
Quiescent == stack = << >> /\ running = {} /\ queue = {}

\* every frame of every thread
Frames == running \cup Range(stack)

Seeds == { pk \in PKs : links[pk].follow }
FailedPKs == { e.pk : e \in failed }

---------------------------------------------------------------------------
(* C1 - Termination.  In asynchronous mode, with seeds registered, no      *)
(* operator stop and no page deleted, a scan whose dispatched tasks have   *)
(* all run to their end (no task queued, none in execution) is finished    *)
(* and holds no pending link.                                              *)

C1_Terminates ==
    (~scan.run_sync /\ Quiescent /\ links # << >> /\ ~Stopped /\ pages = Pages)
        => (Finished /\ \A pk \in PKs : links[pk].crawled)

---------------------------------------------------------------------------
(* C2 - Race on registration.  No check_link ends in an error because its  *)
(* create of a URL was refused by the (url, scan) uniqueness constraint:   *)
(* the loser of the race treats the URL as already registered.             *)

C2_RaceLoserCarriesOn ==
    \A e \in failed : e.error # "IntegrityError: unique"

---------------------------------------------------------------------------
(* C3 - Idempotent finish.  In a run without an operator stop, once        *)
(* scan_finished holds a timestamp no step writes it again.                *)

C3_FinishWrittenOnce ==
    [][ (Finished /\ ~Stopped') => scan'.scan_finished = scan.scan_finished ]_vars

---------------------------------------------------------------------------
(* C4 - Finish only at true completion.  In a run without an operator      *)
(* stop, whenever scan_finished is set every ScanLink of the scan is       *)
(* crawled and no check is at a point from which it still fetches,         *)
(* registers or dispatches links.                                          *)

---------------------------------------------------------------------------
(* C5 - Stop is terminal.  Once the operator has stopped the scan, no      *)
(* step changes the Scan row: scan_finished keeps the stop's timestamp.    *)

C5_StopIsTerminal ==
    [][ Stopped => scan' = scan ]_vars

---------------------------------------------------------------------------
(* C6 - Exactly-once processing.  No check_link goes on to the fetch with  *)
(* a link it loaded as already crawled: a task delivered for a crawled     *)
(* link returns without fetching, registering or writing.                  *)

C6_CrawledLinkNotReprocessed ==
    \A f \in Frames :
        (f.fn = "check_link" /\ f.pc \in {"fetch", "add_link", "create", "dispatch"})
            => ~f.link.crawled

---------------------------------------------------------------------------
(* C7 - Idempotent dedup.  No two ScanLinks of the scan have the same URL, *)
(* and a step of add_link (seeding, the existence check, the create)       *)
(* leaves every stored link as it was: a URL registered again, from any    *)
(* page, keeps the single row of its first registration.                   *)

NoDuplicateUrl(rows) ==
    \A i, j \in 1..Len(rows) : rows[i].url = rows[j].url => i = j

AddLinkStep ==
    \/ ScanPagesSeed
    \/ \E t \in Threads : AddLinkCheck(t)
    \/ \E t \in Threads : AddLinkCreate(t)

C7_IdempotentDedup ==
    /\ [] NoDuplicateUrl(links)
    /\ [][ AddLinkStep =>
             /\ Len(links') >= Len(links)
             /\ SubSeq(links', 1, Len(links)) = links ]_vars

\* both pages answered 200 and were checked to the end without an error:
\* "/x" was registered three times (twice from p1, once from p2), and the
\* seed of p2 once more from p1's anchor
C7_Witness ==
    /\ failed = {}
    /\ \A pk \in Seeds : links[pk].crawled /\ links[pk].status_code = Some(200)
    /\ Cardinality(Seeds) = 2
    /\ Cardinality({ pk \in PKs : links[pk].url = UrlX }) = 1

---------------------------------------------------------------------------
(* C8 - Early stop no-op.  A check_link that starts (a worker takes the    *)
(* task, or the call is made inline) when scan_finished is set returns at  *)
(* once: no frame goes on to the fetch, and links, the Scan row, the web   *)
(* asked and the queue (but for the task taken) are unchanged.             *)

StartsCheck ==
    \/ \E task \in queue : TaskStart(task)
    \/ \E t \in Threads : scan.run_sync /\ Dispatch(t)

C8_EarlyStopNoOp ==
    [][ (Finished /\ StartsCheck) =>
          /\ links' = links
          /\ scan' = scan
          /\ web' = web
          /\ failed' = failed
          /\ queue' \subseteq queue
          /\ running' = running
          /\ Len(stack') <= Len(stack) ]_vars

\* the scan was stopped before any fetch; every dispatched task has been
\* taken since, and the links are as seeded
C8_Witness ==
    /\ Stopped /\ Quiescent
    /\ web = << >>
    /\ links # << >>
    /\ \A pk \in PKs : links[pk] = NewLink(links[pk].url, links[pk].page, TRUE)

---------------------------------------------------------------------------
(* C9 - Crash isolation.  When nothing runs any more in a scan that was    *)
(* not stopped, every link whose check did not itself end in an unhandled  *)
(* error is crawled.                                                       *)

C9_CrashIsolation ==
    (Quiescent /\ ~Stopped /\ failed # {}) =>
        \A pk \in PKs : pk \notin FailedPKs => links[pk].crawled

---------------------------------------------------------------------------
(* C10 - Page-deletion marking persists.  A ScanLink marked page_deleted   *)
(* stays in the table and keeps page_deleted and the page's slug through   *)
(* every later step.                                                       *)

C10_DeletionMarkPersists ==
    [][ /\ Len(links') >= Len(links)
        /\ \A pk \in PKs :
             links[pk].page_deleted =>
                /\ links'[pk].page_deleted
                /\ links'[pk].page_slug = links[pk].page_slug ]_vars

---------------------------------------------------------------------------
(* C11 - Outcome classification.  Once check_link has saved a link, the    *)
(* row has crawled = true and the outcome the decision table gives for     *)
(* what the fetch of its URL answered: invalid or missing schema: invalid, *)
(* not broken; connection failure: broken, not invalid, no status code;    *)
(* another request failure: broken, the text made of the failure's type    *)
(* name and message; a status in [100,400): neither broken nor invalid,    *)
(* the status recorded; any other status: broken, the status recorded,     *)
(* the text the standard reason phrase of a standard code, else the        *)
(* client error text for 4xx, the server error text for 5xx, the unknown   *)
(* status text otherwise.                                                  *)

\* the reason phrases of the standard codes among the statuses asked
StandardPhrase ==
    (400 :> "Bad Request") @@ (404 :> "Not Found")
    @@ (500 :> "Internal Server Error")

\* the decision table of the outcome fields
Outcome(row, resp) ==
    IF resp.kind \in {"InvalidSchema", "MissingSchema"}
    THEN row.invalid /\ ~row.broken
    ELSE IF resp.kind = "ConnectionError"
    THEN row.broken /\ ~row.invalid /\ row.status_code = None
    ELSE IF resp.kind # "response"
    THEN row.broken /\ row.error_text = Some(resp.kind \o ": " \o resp.msg)
    ELSE IF resp.status >= 100 /\ resp.status < 400
    THEN ~row.broken /\ ~row.invalid /\ row.status_code = Some(resp.status)
    ELSE /\ row.broken
         /\ row.status_code = Some(resp.status)
         /\ row.error_text = Some(
              IF resp.status \in DOMAIN StandardPhrase
              THEN StandardPhrase[resp.status]
              ELSE IF resp.status >= 400 /\ resp.status < 500 THEN "Client error"
              ELSE IF resp.status >= 500 /\ resp.status < 600 THEN "Server Error"
              ELSE "Error: Unknown HTTP Status Code")

\* the check of link pk is past its save (or over)
Checked(pk) ==
    /\ links[pk].url \in DOMAIN web
    /\ \A f \in Frames : (f.fn = "check_link" /\ f.pk = pk)
                              => f.pc \in {"pending", "finish"}

---------------------------------------------------------------------------
(* C12 - Category partition.  Every ScanLink of the scan is in exactly one *)
(* of the four query categories pending, invalid, broken and working: no   *)
(* link is both invalid and broken, and a link that is not crawled is      *)
(* neither broken nor invalid and has no status code.                      *)

Categories(pk) ==
    { c \in {"pending", "invalid", "broken", "working"} :
        \/ c = "pending" /\ pk \in non_scanned_links
        \/ c = "invalid" /\ pk \in invalid_links
        \/ c = "broken" /\ pk \in broken_links
        \/ c = "working" /\ pk \in working_links }

C12_CategoryPartition ==
    \A pk \in PKs :
        /\ Cardinality(Categories(pk)) = 1
        /\ ~(links[pk].invalid /\ links[pk].broken)
        /\ ~links[pk].crawled =>
              ~links[pk].broken /\ ~links[pk].invalid
              /\ links[pk].status_code = None

---------------------------------------------------------------------------
(* C13 - Resolver rejection.  Every stored ScanLink URL has scheme http or *)
(* https, every URL requested is the URL of a stored link, and a create    *)
(* of add_link is never for an empty reference or one starting with '#':   *)
(* the row it adds has the resolved URL of a reference that is neither.    *)

HttpOnly(rows) == \A i \in 1..Len(rows) : rows[i].url.scheme \in {"http", "https"}

RequestedAreStored == \A u \in DOMAIN web : \E pk \in PKs : links[pk].url = u

CreatesForAcceptedOnly ==
    \A t \in Threads :
        (AddLinkCreate(t) /\ Len(links') > Len(links)) =>
            LET ref == Head(Top(t).urls) IN
            /\ ref # Ref("", "", "", "")
            /\ ~(ref.scheme = "" /\ ref.netloc = "" /\ ref.path = "")
            /\ links'[Len(links')].url = urljoin(full_url(Top(t).page), ref)
            /\ links'[Len(links')].url.scheme \in {"http", "https"}

C13_ResolverRejection ==
    /\ [] (HttpOnly(links) /\ RequestedAreStored)
    /\ [][ CreatesForAcceptedOnly ]_vars

\* the check of p2 went through its whole document (mailto:, the empty
\* src) and ended: the external link, which comes after the mailto:
\* reference, is registered
C13_Witness ==
    /\ \E pk \in PKs : /\ links[pk].url = full_url("p2")
                        /\ links[pk].crawled
                        /\ links[pk].status_code = Some(200)
    /\ \E pk \in PKs : links[pk].url = UrlExt /\ links[pk].page = "p2"
    /\ "p2" \in pages

---------------------------------------------------------------------------
(* C14 - Synchronous mode runs to completion inline.  When scan_all_pages  *)
(* of a run_sync scan with at least one seed has returned, without an      *)
(* operator stop and without an unhandled error, every ScanLink of the     *)
(* scan is crawled, scan_finished is set, and no task is queued or in      *)
(* execution.                                                              *)

Returned == stack = << >>

C14_SyncRunsToCompletion ==
    (scan.run_sync /\ Returned /\ Seeds # {} /\ ~Stopped /\ failed = {}) =>
        /\ \A pk \in PKs : links[pk].crawled
        /\ Finished
        /\ queue = {} /\ running = {}

\* a synchronous scan of both pages that has returned, with the links it
\* discovered recursively
C14_Witness ==
    /\ scan.run_sync /\ Returned /\ ~Stopped /\ failed = {}
    /\ Cardinality(Seeds) = 2
    /\ \E pk \in PKs : links[pk].url = UrlX
    /\ \E pk \in PKs : links[pk].url = UrlExt /\ links[pk].crawled

---------------------------------------------------------------------------
(* C15 - New-only dispatch.  ScanLink.check_link is called at most once    *)
(* for every ScanLink; a call is for a link the calling thread has just    *)
(* created (seeding, or add_links of the extraction) and that was never    *)
(* dispatched before; and add_link for a reference that resolves to an     *)
(* already registered URL adds no row, dispatches nothing and leaves that  *)
(* link out of the links to dispatch.                                      *)

Calls(d, pk) == IF pk \in DOMAIN d THEN d[pk] ELSE 0

DispatchedAtMostOnce == \A pk \in DOMAIN dispatched : dispatched[pk] <= 1

DispatchesNewOnly ==
    \A pk \in 1..Len(links') :
        Calls(dispatched', pk) > Calls(dispatched, pk) =>
            /\ pk \in PKs
            /\ Calls(dispatched, pk) = 0
            /\ ~links[pk].crawled
            /\ \E f \in Frames : f.pc = "dispatch" /\ pk \in Range(f.new_links)

LooksUpRegistered(t) ==
    /\ AddLinkCheck(t)
    /\ Top(t).page # NoPage
    /\ UrlExists(urljoin(full_url(Top(t).page), Head(Top(t).urls)))

RegisteredAgainNoDispatch ==
    \A t \in Threads :
        LooksUpRegistered(t) =>
            /\ links' = links
            /\ dispatched' = dispatched
            /\ queue' = queue
            /\ \A f \in running' \cup Range(stack') :
                  \A pk \in Range(f.new_links) :
                     \E g \in Frames : pk \in Range(g.new_links)

C15_NewOnlyDispatch ==
    /\ [] DispatchedAtMostOnce
    /\ [][ DispatchesNewOnly /\ RegisteredAgainNoDispatch ]_vars

\* p1 answered 200 and its check is over without an error: its document
\* names "/x" twice and the seed of p2 once; each link was dispatched once
C15_Witness ==
    /\ failed = {} /\ ~Stopped
    /\ \E pk \in PKs : /\ links[pk].url = full_url("p1")
                        /\ links[pk].crawled
                        /\ links[pk].status_code = Some(200)
    /\ Cardinality(Seeds) = 2
    /\ \E pk \in PKs : /\ links[pk].url = UrlX /\ links[pk].page = "p1"
                        /\ Calls(dispatched, pk) = 1
    /\ \A pk \in PKs : Calls(dispatched, pk) = 1

---------------------------------------------------------------------------
(* C16 - Extraction guard.  A check_link is at add_link, at its create or  *)
(* at the dispatch of new links only if its fetch answered a status in     *)
(* [100,400) and its link has follow = true; and the save of a check that  *)
(* does not extract (transport failure, another status, follow = false)    *)
(* leaves the links of the scan as they were, but for the outcome fields   *)
(* (crawled, invalid, broken, status_code, error_text) of the checked      *)
(* link.                                                                   *)

Extracts(f) ==
    /\ f.link.follow
    /\ f.link.status_code # None
    /\ f.link.status_code[1] >= 100 /\ f.link.status_code[1] < 400

ExtractionGuarded ==
    \A f \in Frames :
        (f.fn = "check_link" /\ f.pc \in {"add_link", "create", "dispatch"})
            => Extracts(f)

\* row with the outcome fields of the row `to`
WithOutcomeOf(row, to) ==
    [row EXCEPT !.crawled = to.crawled, !.invalid = to.invalid,
                !.broken = to.broken, !.status_code = to.status_code,
                !.error_text = to.error_text]

OnlyOutcomeWritten ==
    \A t \in Threads :
        (Save(t) /\ ~Extracts(Top(t))) =>
            /\ Len(links') = Len(links)
            /\ \A pk \in PKs :
                 links'[pk] = IF pk = Top(t).pk
                              THEN WithOutcomeOf(links[pk], links'[pk])
                              ELSE links[pk]

\* the part of the claim on the other links of the scan
OtherLinksUntouched ==
    \A t \in Threads :
        (Save(t) /\ ~Extracts(Top(t))) =>
            /\ Len(links') = Len(links)
            /\ \A pk \in PKs : pk # Top(t).pk => links'[pk] = links[pk]

C16_GuardHolds ==
    /\ [] ExtractionGuarded
    /\ [][ OtherLinksUntouched ]_vars

C16_ExtractionGuard ==
    /\ [] ExtractionGuarded
    /\ [][ OnlyOutcomeWritten ]_vars

---------------------------------------------------------------------------
(* C17 - Follow only for seeds.  A ScanLink has follow = true exactly if   *)
(* seeding created it, for a page and with that page's URL; a link created *)
(* by the extraction has follow = false and the page of the link being     *)
(* checked, which is a follow link; follow never changes; so a check       *)
(* registers links only for a seed, and every link is a seed or is         *)
(* referenced by the document of a seed.                                   *)

SeedsArePages ==
    \A pk \in Seeds :
        \E p \in Pages : /\ links[pk].url = full_url(p)
                         /\ links[pk].page \in {p, NoPage}

OnlySeedsRegister ==
    \A f \in Frames :
        (f.fn = "check_link" /\ f.pc \in {"add_link", "create", "dispatch"})
            => f.link.follow

ReferencedBySeed(u) ==
    \E pk \in Seeds :
        \E i \in 1..Len(Content(links[pk].url)) :
            urljoin(links[pk].url, Content(links[pk].url)[i]) = u

SeedOrReferenced ==
    \A pk \in PKs : links[pk].follow \/ ReferencedBySeed(links[pk].url)

NewPKs == (1..Len(links')) \ PKs

SeedingCreatesFollow ==
    ScanPagesSeed => \A pk \in NewPKs : links'[pk].follow

ExtractionCreatesNoFollow ==
    \A t \in Threads :
        AddLinkCreate(t) =>
            \A pk \in NewPKs : /\ ~links'[pk].follow
                                /\ links'[pk].page = Top(t).link.page
                                /\ Top(t).link.follow

FollowNeverChanges ==
    \A pk \in PKs : pk \in 1..Len(links') /\ links'[pk].follow = links[pk].follow

C17_FollowOnlyForSeeds ==
    /\ [] (SeedsArePages /\ OnlySeedsRegister /\ SeedOrReferenced)
    /\ [][ /\ SeedingCreatesFollow
           /\ ExtractionCreatesNoFollow
           /\ FollowNeverChanges ]_vars

\* only p1 was seeded; its document names the URL of page p2, registered
\* by the extraction with follow = false; its check got 200 and ended
\* without registering what p2's document names
C17_Witness ==
    /\ Quiescent /\ failed = {} /\ ~Stopped
    /\ Cardinality(Seeds) = 1
    /\ \E pk \in PKs : /\ links[pk].url = full_url("p2")
                        /\ ~links[pk].follow
                        /\ links[pk].page = "p1"
                        /\ links[pk].crawled
                        /\ links[pk].status_code = Some(200)
    /\ ~\E pk \in PKs : links[pk].url = UrlExt

---------------------------------------------------------------------------
(* C18 - Storage rejection is silent.  A create of add_link for a URL      *)
(* longer than the storage limit adds no row and ends no check in an       *)
(* error, and add_links goes on with the references that follow; no stored *)
(* URL is longer than the limit; and the check whose document named the    *)
(* long URL still registers the references after it and marks its own link *)
(* crawled.                                                                *)

UrlLong == Ref("https", "site.example", "/long", "")

TooLongCreate(t) == AddLinkCreate(t) /\ Top(t).url = UrlLong

RejectionIsSilent ==
    \A t \in Threads :
        TooLongCreate(t) =>
            /\ links' = links
            /\ failed' = failed
            /\ \E f \in running' \cup Range(stack') :
                  /\ f.fn = "check_link" /\ f.pk = Top(t).pk /\ f.n = Top(t).n
                  /\ f.pc = "add_link"
                  /\ Head(f.urls) = Ref("http", "ext.example", "/", "")

NoLongUrlStored == \A pk \in PKs : links[pk].url # UrlLong

\* the seed of p2 is crawled with status 200 only when its check has gone
\* through the whole document
RestStillRegistered ==
    \A pk \in PKs :
        (links[pk].url = full_url("p2") /\ links[pk].follow /\ links[pk].crawled
            /\ links[pk].status_code = Some(200))
        => \E k \in PKs : links[k].url = UrlExt

C18_StorageRejectionSilent ==
    /\ [] (NoLongUrlStored /\ RestStillRegistered)
    /\ [][ RejectionIsSilent ]_vars

\* the check of p2 met the long URL and ended: p2 is crawled, the external
\* link that follows the long one in the document is registered and was
\* checked, nothing failed
C18_Witness ==
    /\ failed = {} /\ Quiescent /\ ~Stopped /\ pages = Pages
    /\ UrlLong \notin DOMAIN web
    /\ \E pk \in PKs : /\ links[pk].url = full_url("p2") /\ links[pk].follow
                        /\ links[pk].crawled
                        /\ links[pk].status_code = Some(200)
    /\ \E k \in PKs : /\ links[k].url = UrlExt /\ links[k].crawled
                       /\ links[k].broken

---------------------------------------------------------------------------
(* C19 - No page context.  add_link called without an originating page     *)
(* resolves the reference against the site root and registers or rejects   *)
(* it: no check_link ends in the error of an add_link that had no page.    *)

C19_NoPageContextNoError ==
    \A e \in failed : e.error # "AttributeError"

---------------------------------------------------------------------------
(* C20 - Interleaving independence.  When a scan that was not stopped is   *)
(* finished, the URLs registered and the classification of each (invalid,  *)
(* broken, status code) are a function of the seeds and of what each URL   *)
(* answers: the same for the synchronous run and for every interleaving    *)
(* of the workers.  The originating page of a link is left free.           *)

\* the references of the document at b that add_link accepts, resolved
AcceptedOf(b) ==
    { urljoin(b, Content(b)[i]) :
        i \in { j \in 1..Len(Content(b)) :
                 LET r == Content(b)[j] IN
                 /\ r # Ref("", "", "", "")
                 /\ ~(r.scheme = "" /\ r.netloc = "" /\ r.path = "")
                 /\ urljoin(b, r).scheme \in {"http", "https"}
                 /\ urljoin(b, r).path # "/long" } }

ExpectedUrls(seed_urls, w) ==
    seed_urls \cup
    UNION { AcceptedOf(b) :
              b \in { c \in seed_urls : /\ w[c].kind = "response"
                                        /\ w[c].status \in 100..399 } }

ExpectedClass(resp) ==
    IF resp.kind = "response"
    THEN [invalid |-> FALSE,
          broken |-> ~(resp.status \in 100..399),
          status_code |-> Some(resp.status)]
    ELSE [invalid |-> resp.kind \in {"InvalidSchema", "MissingSchema"},
          broken |-> resp.kind \notin {"InvalidSchema", "MissingSchema"},
          status_code |-> None]

FinalClass(row) ==
    [invalid |-> row.invalid, broken |-> row.broken,
     status_code |-> row.status_code]

C20_InterleavingIndependence ==
    (Finished /\ ~Stopped) =>
        /\ \A pk \in PKs : links[pk].url \in DOMAIN web
        /\ { links[pk].url : pk \in PKs }
              = ExpectedUrls({ links[pk].url : pk \in Seeds }, web)
        /\ \A pk \in PKs :
              links[pk].crawled
              /\ FinalClass(links[pk]) = ExpectedClass(web[links[pk].url])

\* an asynchronous scan of both pages, finished, in which p2's check
\* registered "/x" before p1's did (the synchronous run checks p1 first
\* and records p1)
C20_Witness ==
    /\ ~scan.run_sync /\ Finished /\ ~Stopped /\ Quiescent
    /\ Cardinality(Seeds) = 2
    /\ \A pk \in Seeds : links[pk].status_code = Some(200)
    /\ \E pk \in PKs : links[pk].url = UrlX /\ links[pk].page = "p2"
    /\ \E pk \in PKs : links[pk].url = UrlExt /\ links[pk].invalid

---------------------------------------------------------------------------
(* C21 - Empty scan never finishes.  scan_finished is written only by the  *)
(* last step of a check_link or by the operator's stop; a scan whose       *)
(* seeding registered no link never starts a check_link, so its            *)
(* scan_finished stays null until the operator stops it.                   *)

\* scan_all_pages has returned and registered nothing
EmptySeeded == Returned /\ links = << >>

FinishWrittenByCheckOrStop ==
    scan'.scan_finished # scan.scan_finished =>
        \/ \E f \in Frames : f.fn = "check_link" /\ f.pc = "finish"
        \/ ~Stopped /\ Stopped'

EmptyScanStaysIdle ==
    EmptySeeded =>
        /\ links' = links /\ stack' = stack
        /\ queue' = {} /\ running' = {}
        /\ web' = web /\ dispatched' = dispatched

C21_EmptyScanNeverFinishes ==
    /\ [] (EmptySeeded => (Finished => Stopped) /\ queue = {} /\ running = {})
    /\ [][ FinishWrittenByCheckOrStop /\ EmptyScanStaysIdle ]_vars

\* seeding found no live public page: the scan has no link, nothing runs
\* and scan_finished is null
C21_Witness ==
    /\ EmptySeeded /\ Quiescent
    /\ ~Finished /\ ~Stopped
    /\ dispatched = << >>

===========================================================================
